---------------------------- MODULE Spec2Model ----------------------------
(***************************************************************************)
(* A model of custom_components/somneo/somneo.py: the HTTP request helper  *)
(* (SomneoRequestHelper), the alarm registry with its mutation operations  *)
(* (SomneoAlarm), the next-alarm computation, the day mask, and the cached *)
(* blobs of the Somneo object with its full refresh and domain setters.    *)
(*                                                                         *)
(* One caller runs one operation at a time, except in SpecConc, where two  *)
(* callers are inside set_alarm together.  An operation that talks to the  *)
(* device advances one request attempt per step; everything the handler    *)
(* does between two attempts is part of the step that ends the earlier     *)
(* attempt.                                                                *)
(*                                                                         *)
(* Specifications: Spec (transport, update_alarm, alarm mutations),        *)
(* SpecSched (next_alarm), SpecMask (alarm_settings and day_int),          *)
(* SpecConc (two callers in set_alarm), SpecRefresh (Somneo.update),       *)
(* SpecSetters (set_light, set_audio, set_sunset), SpecCache (the setters  *)
(* together with toggle_alarm and set_alarm).                              *)
(***************************************************************************)
EXTENDS Integers, Sequences, FiniteSets, TLC

(***************************************************************************)
(* Bounds of the model.                                                    *)
(***************************************************************************)
\* The device reports at most MaxSlots alarm slots in one response.
MaxSlots == 2
\* The number of attempts of one request is counted up to MaxAttempts and
\* saturates there; the retry loop itself is not limited.
MaxAttempts == 2
\* Somneo.update is called at most MaxRefresh times in one behaviour.
MaxRefresh == 2
\* The domain setters are called at most MaxSetterCalls times in one behaviour.
MaxSetterCalls == 2
\* The domain setters are called at most MaxCacheCalls times in a behaviour
\* that also changes the alarm registry.
MaxCacheCalls == 1

(***************************************************************************)
(* Values.                                                                 *)
(***************************************************************************)
\* Python's None where an integer is expected (the omitted hour, minute,
\* days of set_alarm; the result of next_alarm when nothing is enabled).
None == -1

\* (hour, minute, day mask) triples a device slot reports in the model.
DevTimes == { <<6, 0, 0>>, <<9, 30, 254>> }
\* Snooze minutes the device reports.
DevSnooze == { 9 }
\* Bodies of a 422 answer.
Bodies422 == { "bad field", "bad value" }

\* The key 'time' or 'days' missing from a registry record (a record left
\* half built by update_alarm).
NoTime == << >>

SeqsUpTo(S, n) == UNION { [1..k -> S] : k \in 0..n }

VARIABLES
    alarm_data,     \* SomneoAlarm.alarm_data: sequence of records, entry i+1 is key 'alarm<i>'
    snoozetime,     \* SomneoAlarm.snoozetime
    pc,             \* where the running operation stands: "idle" or the url it waits on
    call,           \* the running or last operation and its arguments
    req,            \* the request _internal_call is looping on
    attempts,       \* attempts made for req (saturating at MaxAttempts)
    lastOutcome,    \* how the latest attempt of the running/last operation ended
    logged,         \* the response content written by _LOGGER.error on a 422
    outcome,        \* how the last operation ended
    nget, nput,     \* requests of the running/last operation that reached get / put
    built,          \* the payload dict the running/last alarm mutation built
    enabled_alarms, \* update_alarm's local: the 'prfen' array
    time_alarms,    \* update_alarm's local: the slots of almhr/almmn/daynm
    clock,          \* the current instant: ISO weekday and minutes since midnight
    blobs,          \* the Somneo object's cached blobs, by attribute name
    refreshes,      \* Somneo.update calls begun so far
    threads,        \* two callers running set_alarm at once: position and locals of each
    overlapped,     \* whether the two callers' set_alarm calls overlapped in time
    setter_calls    \* calls of set_light, set_audio, set_sunset begun so far

vars == << alarm_data, snoozetime, pc, call, req, attempts, lastOutcome,
           logged, outcome, nget, nput, built, enabled_alarms, time_alarms,
           clock, blobs, refreshes, threads, overlapped, setter_calls >>

(***************************************************************************)
(* Transport: SomneoRequestHelper.                                         *)
(***************************************************************************)
NoReq == [method |-> "none", url |-> "", payload |-> << >>]

\* What one call of session.request can end in.  ConnectTimeout is a
\* subclass of both ConnectionError and Timeout in requests.
AttemptExceptions == {"ReadTimeout", "ConnectTimeout", "ConnectionError", "RequestException"}

IsTimeout(e) == e \in {"ReadTimeout", "ConnectTimeout"}
IsConnectionError(e) == e \in {"ConnectionError", "ConnectTimeout"}

\* A mutation of ExceptClause: the ConnectionError clause tested first.
ExceptClauseConnFirst(e) ==
    IF IsConnectionError(e) THEN "continue"
    ELSE "raise"

\* The except clauses of the request loop, in their order.
ExceptClause(e) ==
    IF IsTimeout(e) THEN "raise"
    ELSE IF IsConnectionError(e) THEN "continue"
    ELSE "raise"

\* 'days' is the list of day names alarm_settings returns next to the time.
NoOutcome ==
    [kind |-> "none", exc |-> "", carried |-> "", value |-> None, days |-> << >>]
Returned(v) ==
    [kind |-> "return", exc |-> "", carried |-> "", value |-> v, days |-> << >>]
Raised(e, c) ==
    [kind |-> "raise", exc |-> e, carried |-> c, value |-> None, days |-> << >>]

\* raise Exception("Invalid Request."): the only argument is the fixed text.
Raise422(content) == Raised("Exception", "Invalid Request.")

\* 'args' holds the arguments of a domain setter.
NoCall == [op |-> "none", alarm |-> None, hour |-> None, minute |-> None,
           days |-> None, status |-> FALSE, name |-> "", channel |-> "",
           args |-> << >>]

Min(a, b) == IF a < b THEN a ELSE b

\* Python's None where a blob (a dict) is expected.
NoBlob == << >>

\* The attributes of the Somneo object that update() assigns.
BlobAttrs == { "timezone_status", "relax_status", "dusk_status", "timer_runtime",
               "settings_info", "light_data", "sensor_data", "device_info",
               "audio_info", "night_data" }

\* Somneo.__init__: every blob starts as None.
NoBlobs == [a \in BlobAttrs |-> NoBlob]

\* No second caller: the operations of the program run one at a time.
NoThreads == << >>

Init ==
    /\ alarm_data = << >>
    /\ snoozetime = None
    /\ pc = "idle"
    /\ call = NoCall
    /\ req = NoReq
    /\ attempts = 0
    /\ lastOutcome = "none"
    /\ logged = ""
    /\ outcome = NoOutcome
    /\ nget = 0
    /\ nput = 0
    /\ built = << >>
    /\ enabled_alarms = << >>
    /\ time_alarms = << >>
    /\ clock = [wd |-> 3, t |-> 480]
    /\ blobs = NoBlobs
    /\ refreshes = 0
    /\ threads = NoThreads
    /\ overlapped = FALSE
    /\ setter_calls = 0

\* get(url): _internal_call('GET', url, None, None) entered.
Get(url) == [method |-> "GET", url |-> url, payload |-> << >>]

\* A mutation of WhileTrue: the loop gives up after MaxAttempts attempts.
WhileAttemptsLeft(n) == n < MaxAttempts

\* "while True:", the condition under which the loop goes round again after
\* n attempts.
WhileTrue(n) == TRUE

\* An attempt ends in an exception the loop retries.
AttemptContinue(e) ==
    /\ UNCHANGED << clock, blobs, refreshes, threads, overlapped, setter_calls >>
    /\ req # NoReq
    /\ WhileTrue(attempts)
    /\ ExceptClause(e) = "continue"
    /\ attempts' = Min(attempts + 1, MaxAttempts)
    /\ lastOutcome' = e
    /\ UNCHANGED << alarm_data, snoozetime, pc, call, req, logged, outcome,
                    nget, nput, built, enabled_alarms, time_alarms >>

\* An attempt ends in an exception the loop re-raises: the operation ends.
AttemptRaise(e) ==
    /\ UNCHANGED << clock, blobs, refreshes, threads, overlapped, setter_calls >>
    /\ req # NoReq
    /\ ExceptClause(e) = "raise"
    /\ attempts' = Min(attempts + 1, MaxAttempts)
    /\ lastOutcome' = e
    /\ outcome' = Raised(e, "")
    /\ req' = NoReq
    /\ pc' = "idle"
    /\ enabled_alarms' = << >>
    /\ UNCHANGED << alarm_data, snoozetime, call, logged, nget, nput, built,
                    time_alarms >>

\* The device answers with status 422.
Attempt422(content) ==
    /\ UNCHANGED << clock, blobs, refreshes, threads, overlapped, setter_calls >>
    /\ req # NoReq
    /\ attempts' = Min(attempts + 1, MaxAttempts)
    /\ lastOutcome' = "422"
    /\ logged' = content
    /\ outcome' = Raise422(content)
    /\ req' = NoReq
    /\ pc' = "idle"
    /\ enabled_alarms' = << >>
    /\ UNCHANGED << alarm_data, snoozetime, call, nget, nput, built,
                    time_alarms >>

\* The device answers with another status and a body r.json() cannot decode.
AttemptNotJson ==
    /\ UNCHANGED << clock, blobs, refreshes, threads, overlapped, setter_calls >>
    /\ req # NoReq
    /\ attempts' = Min(attempts + 1, MaxAttempts)
    /\ lastOutcome' = "notjson"
    /\ outcome' = Raised("JSONDecodeError", "")
    /\ req' = NoReq
    /\ pc' = "idle"
    /\ enabled_alarms' = << >>
    /\ UNCHANGED << alarm_data, snoozetime, call, logged, nget, nput, built,
                    time_alarms >>


(***************************************************************************)
(* SomneoAlarm.update_alarm: three GETs, then the registry is built.       *)
(***************************************************************************)
\* What a new operation resets: the bookkeeping of the previous one.
Begin(c) ==
    /\ pc = "idle"
    /\ call' = c
    /\ attempts' = 0
    /\ lastOutcome' = "none"
    /\ logged' = ""
    /\ UNCHANGED << clock, threads, overlapped >>

\* A mutation of Record: the position is the array index itself.
RecordZeroBased(i, en, tm) ==
    [position |-> i - 1, enabled |-> en[i],
     time |-> << tm[i][1], tm[i][2] >>, days |-> tm[i][3]]

\* The record update_alarm builds for array index i-1 (1-based i here).
Record(i, en, tm) ==
    [position |-> i, enabled |-> en[i],
     time |-> << tm[i][1], tm[i][2] >>, days |-> tm[i][3]]

\* The record left behind when time_alarms has no entry for the index:
\* 'position' and 'enabled' are set, then the time lookup raises IndexError.
HalfRecord(i, en) ==
    [position |-> i, enabled |-> en[i], time |-> NoTime, days |-> None]

\* The for loop of update_alarm over enumerate(enabled_alarms['prfen']):
\* entries are assigned into the existing dict; nothing is removed from it.
BuildRegistry(old, en, tm) ==
    LET done == Min(Len(en), Len(tm))
        last == IF Len(en) > Len(tm) THEN done + 1 ELSE done
        n == IF Len(old) > last THEN Len(old) ELSE last
    IN [i \in 1..n |->
          IF i <= done THEN Record(i, en, tm)
          ELSE IF i <= last THEN HalfRecord(i, en)
          ELSE old[i]]

UpdateAlarm ==
    /\ Begin([NoCall EXCEPT !.op = "update_alarm"])
    /\ pc' = "wualm"
    /\ req' = Get("wualm")
    /\ nget' = 1
    /\ nput' = 0
    /\ outcome' = NoOutcome
    /\ built' = << >>
    /\ enabled_alarms' = << >>
    /\ time_alarms' = << >>
    /\ UNCHANGED << alarm_data, snoozetime, blobs, refreshes, setter_calls >>

\* GET wualm answered: __get_snooze_time returns response['snztm'], and
\* update_alarm goes on to GET wualm/aenvs.
ReturnSnooze(s) ==
    /\ UNCHANGED << clock, blobs, refreshes, threads, overlapped, setter_calls >>
    /\ pc = "wualm"
    /\ req # NoReq
    /\ snoozetime' = s
    /\ lastOutcome' = "response"
    /\ pc' = "wualm/aenvs"
    /\ req' = Get("wualm/aenvs")
    /\ attempts' = 0
    /\ nget' = nget + 1
    /\ UNCHANGED << alarm_data, call, logged, outcome, nput, built,
                    enabled_alarms, time_alarms >>

\* GET wualm/aenvs answered: update_alarm goes on to GET wualm/aalms.
ReturnEnabled(en) ==
    /\ UNCHANGED << clock, blobs, refreshes, threads, overlapped, setter_calls >>
    /\ pc = "wualm/aenvs"
    /\ req # NoReq
    /\ enabled_alarms' = en
    /\ lastOutcome' = "response"
    /\ pc' = "wualm/aalms"
    /\ req' = Get("wualm/aalms")
    /\ attempts' = 0
    /\ nget' = nget + 1
    /\ UNCHANGED << alarm_data, snoozetime, call, logged, outcome, nput,
                    built, time_alarms >>

\* GET wualm/aalms answered: the loop runs and update_alarm ends, normally
\* or with the IndexError of a time array shorter than the flags array.
ReturnTimes(tm) ==
    /\ UNCHANGED << clock, blobs, refreshes, threads, overlapped, setter_calls >>
    /\ pc = "wualm/aalms"
    /\ req # NoReq
    /\ time_alarms' = tm
    /\ lastOutcome' = "response"
    /\ attempts' = Min(attempts + 1, MaxAttempts)
    /\ alarm_data' = BuildRegistry(alarm_data, enabled_alarms, tm)
    /\ outcome' = IF Len(enabled_alarms) > Len(tm)
                  THEN Raised("IndexError", "")
                  ELSE Returned(None)
    /\ req' = NoReq
    /\ pc' = "idle"
    /\ UNCHANGED << snoozetime, call, logged, nget, nput, built, enabled_alarms >>


(***************************************************************************)
(* SomneoAlarm: the mutation operations.  Each builds a payload dict,      *)
(* some change the registry record, and each ends in self._put(...).       *)
(***************************************************************************)
LIGHT_CURVES ==
    [c \in {"sunny day", "island red", "nordic white", "carribean red", "No Light"} |->
        CASE c = "sunny day" -> 0
          [] c = "island red" -> 1
          [] c = "nordic white" -> 2
          [] c = "carribean red" -> 3
          [] c = "No Light" -> 4]

SOUND_SOURCE ==
    [s \in {"wake-up", "radio", "off"} |->
        CASE s = "wake-up" -> "wus"
          [] s = "radio" -> "fmr"
          [] s = "off" -> "off"]

SOUND_CHANNEL ==
    [c \in {"forest birds", "summer birds", "buddha wakeup", "morning alps",
            "yoga harmony", "nepal bowls", "summer lake", "ocean waves"} |->
        CASE c = "forest birds" -> "1"
          [] c = "summer birds" -> "2"
          [] c = "buddha wakeup" -> "3"
          [] c = "morning alps" -> "4"
          [] c = "yoga harmony" -> "5"
          [] c = "nepal bowls" -> "6"
          [] c = "summer lake" -> "7"
          [] c = "ocean waves" -> "8"]

\* Arguments the caller passes in the model.
AlarmIds == 1..MaxSlots                 \* index i stands for 'alarm<i-1>'
ArgHours == { None, 0 }
ArgMinutes == { None, 0 }
ArgDays == { None, 0 }
ArgCurves == { "sunny day", "No Light", "purple" }
ArgSounds == { <<"wake-up", "forest birds">>, <<"wake-up", "97.5">>,
               <<"radio", "97.5">>, <<"off", "forest birds">>,
               <<"cd", "forest birds">> }

\* d[k] = v on a dict.
With(d, k, v) == [x \in DOMAIN d \cup {k} |-> IF x = k THEN v ELSE d[x]]

\* alarm in self.alarm_data
Exists(a) == a \in 1..Len(alarm_data)

\* How far a handler got: the payload dict built, the registry, and the
\* exception that ended it before the self._put line ("" when it got there).
Step(p, d, e) == [payload |-> p, data |-> d, exc |-> e]

\* self._put(...) inside SomneoAlarm: the class defines get-side helpers
\* only (request, alarm_data, snoozetime), so the attribute lookup fails.
AlarmPut == Raised("AttributeError", "")

\* A mutation operation as one step: it is over before any request is made.
Finish(c, r) ==
    /\ Begin(c)
    /\ built' = r.payload
    /\ alarm_data' = r.data
    /\ outcome' = IF r.exc # "" THEN Raised(r.exc, "") ELSE AlarmPut
    /\ req' = NoReq
    /\ pc' = "idle"
    /\ nget' = 0
    /\ nput' = 0
    /\ enabled_alarms' = << >>
    /\ time_alarms' = << >>
    /\ UNCHANGED << snoozetime, blobs, refreshes, setter_calls >>

PrfNr(a) == With(<< >>, "prfnr", alarm_data[a].position)

set_powerwake(a, onoff, hour, minute) ==
    IF ~Exists(a) THEN Step(<< >>, alarm_data, "KeyError")
    ELSE Step(With(With(With(PrfNr(a), "pwrsz", IF onoff THEN 1 ELSE 0),
                        "pszhr", hour), "pszmn", minute),
              alarm_data, "")

add_alarm(a) ==
    IF ~Exists(a) THEN Step(<< >>, alarm_data, "KeyError")
    ELSE Step(With(PrfNr(a), "prfvs", TRUE), alarm_data, "")

\* A mutation of RemoveDefaults: the reset the specification describes.
RemoveDefaultsOnce ==
    [prfen |-> FALSE, prfvs |-> FALSE, almhr |-> 7, almmn |-> 0,
     pwrsz |-> 0, pszhr |-> 0, pszmn |-> 0, ctype |-> 0, curve |-> 20,
     durat |-> 30, daynm |-> 0, snddv |-> "wus", sndch |-> "1", sndlv |-> 12]

\* The default settings remove_alarm writes besides prfnr.
RemoveDefaults ==
    [prfen |-> FALSE, prfvs |-> FALSE, almhr |-> 7, almmn |-> 30,
     pwrsz |-> 0, pszhr |-> 0, pszmn |-> 0, ctype |-> 0, curve |-> 20,
     durat |-> 30, daynm |-> 254, snddv |-> "wus", sndch |-> "1", sndlv |-> 12]

remove_alarm(a) ==
    IF ~Exists(a) THEN Step(<< >>, alarm_data, "KeyError")
    ELSE Step([k \in DOMAIN RemoveDefaults \cup {"prfnr"} |->
                 IF k = "prfnr" THEN alarm_data[a].position ELSE RemoveDefaults[k]],
              alarm_data, "")

\* A mutation of toggle_alarm: the record is changed after the write, on a
\* line the failing self._put never lets the call reach.
toggle_alarm_put_first(a, status) ==
    IF ~Exists(a) THEN Step(<< >>, alarm_data, "KeyError")
    ELSE Step(With(With(With(<< >>, "prfnr", alarm_data[a].position), "prfvs", TRUE),
                   "prfen", status),
              alarm_data, "")

toggle_alarm(a, status) ==
    IF ~Exists(a) THEN Step(<< >>, alarm_data, "KeyError")
    ELSE LET d == [alarm_data EXCEPT ![a].enabled = status]
         IN Step(With(With(With(<< >>, "prfnr", d[a].position), "prfvs", TRUE),
                      "prfen", status),
                 d, "")

\* "x is not None", the test set_alarm applies to hour, minute and days.
IsNotNone(x) == x # None
\* "if x:", the truthiness test: None and 0 both fail it.
Truthy(x) == x # None /\ x # 0

\* The body of set_alarm; gh, gm, gd say whether hour, minute, days pass
\* the test of the if statements.  Each supplied argument goes into the
\* payload first and into the record next; reading r.time of a half-built
\* record raises KeyError in between.
SetAlarmBody(gh, gm, gd, a, hour, minute, days) ==
    IF ~Exists(a) THEN Step(<< >>, alarm_data, "KeyError")
    ELSE
      LET r0 == alarm_data[a]
          p0 == PrfNr(a)
          p1 == IF gh THEN With(p0, "almhr", hour) ELSE p0
          fail1 == gh /\ r0.time = NoTime
          r1 == IF gh /\ ~fail1
                THEN [r0 EXCEPT !.time = << hour, r0.time[2] >>] ELSE r0
          p2 == IF gm THEN With(p1, "almmn", minute) ELSE p1
          fail2 == gm /\ r1.time = NoTime
          r2 == IF gm /\ ~fail2
                THEN [r1 EXCEPT !.time = << r1.time[1], minute >>] ELSE r1
          p3 == IF gd THEN With(p2, "daynm", days) ELSE p2
          r3 == IF gd THEN [r2 EXCEPT !.days = days] ELSE r2
      IN IF fail1 THEN Step(p1, alarm_data, "KeyError")
         ELSE IF fail2 THEN Step(p2, [alarm_data EXCEPT ![a] = r1], "KeyError")
         ELSE Step(p3, [alarm_data EXCEPT ![a] = r3], "")

\* A mutation of set_alarm: arguments tested for truthiness, as the
\* domain setters do.
set_alarm_truthy(a, hour, minute, days) ==
    SetAlarmBody(Truthy(hour), Truthy(minute), Truthy(days), a, hour, minute, days)

set_alarm(a, hour, minute, days) ==
    SetAlarmBody(IsNotNone(hour), IsNotNone(minute), IsNotNone(days),
                 a, hour, minute, days)

set_light_alarm(a, curve, level, duration) ==
    IF ~Exists(a) THEN Step(<< >>, alarm_data, "KeyError")
    ELSE IF curve \notin DOMAIN LIGHT_CURVES THEN Step(PrfNr(a), alarm_data, "KeyError")
    ELSE Step(With(With(With(PrfNr(a), "ctype", LIGHT_CURVES[curve]),
                        "curve", level), "durat", duration),
              alarm_data, "")

\* A mutation of set_sound_alarm: a channel name outside the table is passed
\* through as it is.
set_sound_alarm_lenient(a, source, channel, level) ==
    IF ~Exists(a) THEN Step(<< >>, alarm_data, "KeyError")
    ELSE IF source \notin DOMAIN SOUND_SOURCE THEN Step(PrfNr(a), alarm_data, "KeyError")
    ELSE Step(With(With(With(PrfNr(a), "snddv", SOUND_SOURCE[source]), "sndch",
                        IF source = "wake-up" /\ channel \in DOMAIN SOUND_CHANNEL
                        THEN SOUND_CHANNEL[channel]
                        ELSE IF source = "off" THEN " " ELSE channel),
                   "sndlv", level),
              alarm_data, "")

set_sound_alarm(a, source, channel, level) ==
    IF ~Exists(a) THEN Step(<< >>, alarm_data, "KeyError")
    ELSE IF source \notin DOMAIN SOUND_SOURCE THEN Step(PrfNr(a), alarm_data, "KeyError")
    ELSE LET p1 == With(PrfNr(a), "snddv", SOUND_SOURCE[source])
         IN IF source = "wake-up" /\ channel \notin DOMAIN SOUND_CHANNEL
            THEN Step(p1, alarm_data, "KeyError")
            ELSE Step(With(With(p1, "sndch",
                                IF source = "wake-up" THEN SOUND_CHANNEL[channel]
                                ELSE IF source = "off" THEN " " ELSE channel),
                           "sndlv", level),
                      alarm_data, "")

\* set_snooze_time builds its payload inside the call expression, after
\* self._put has been looked up.
set_snooze_time(snooze_time) == Step(<< >>, alarm_data, "")

SetPowerwake ==
    \E a \in AlarmIds, onoff \in BOOLEAN :
        Finish([NoCall EXCEPT !.op = "set_powerwake", !.alarm = a,
                              !.status = onoff, !.hour = 0, !.minute = 0],
               set_powerwake(a, onoff, 0, 0))

AddAlarm ==
    \E a \in AlarmIds :
        Finish([NoCall EXCEPT !.op = "add_alarm", !.alarm = a], add_alarm(a))

RemoveAlarm ==
    \E a \in AlarmIds :
        Finish([NoCall EXCEPT !.op = "remove_alarm", !.alarm = a], remove_alarm(a))

ToggleAlarm ==
    \E a \in AlarmIds, status \in BOOLEAN :
        Finish([NoCall EXCEPT !.op = "toggle_alarm", !.alarm = a, !.status = status],
               toggle_alarm(a, status))

SetAlarm ==
    \E a \in AlarmIds, hour \in ArgHours, minute \in ArgMinutes, days \in ArgDays :
        Finish([NoCall EXCEPT !.op = "set_alarm", !.alarm = a, !.hour = hour,
                              !.minute = minute, !.days = days],
               set_alarm(a, hour, minute, days))

SetLightAlarm ==
    \E a \in AlarmIds, curve \in ArgCurves :
        Finish([NoCall EXCEPT !.op = "set_light_alarm", !.alarm = a, !.name = curve],
               set_light_alarm(a, curve, 20, 30))

SetSoundAlarm ==
    \E a \in AlarmIds, sc \in ArgSounds :
        Finish([NoCall EXCEPT !.op = "set_sound_alarm", !.alarm = a,
                              !.name = sc[1], !.channel = sc[2]],
               set_sound_alarm(a, sc[1], sc[2], 12))

SetSnoozeTime ==
    Finish([NoCall EXCEPT !.op = "set_snooze_time"], set_snooze_time(9))

(***************************************************************************)
(* The program: one caller, any operation after any other.                 *)
(***************************************************************************)
Next ==
    \/ UpdateAlarm
    \/ \E e \in AttemptExceptions : AttemptContinue(e)
    \/ \E e \in AttemptExceptions : AttemptRaise(e)
    \/ \E content \in Bodies422 : Attempt422(content)
    \/ AttemptNotJson
    \/ \E s \in DevSnooze : ReturnSnooze(s)
    \/ \E en \in SeqsUpTo(BOOLEAN, MaxSlots) : ReturnEnabled(en)
    \/ \E tm \in SeqsUpTo(DevTimes, MaxSlots) : ReturnTimes(tm)
    \/ SetPowerwake
    \/ AddAlarm
    \/ RemoveAlarm
    \/ ToggleAlarm
    \/ SetAlarm
    \/ SetLightAlarm
    \/ SetSoundAlarm
    \/ SetSnoozeTime

Spec == Init /\ [][Next]_vars

(***************************************************************************)
(* SomneoAlarm.next_alarm.  Instants are minutes counted from today's      *)
(* midnight; the returned isoformat string stands for that instant.        *)
(***************************************************************************)
MinutesPerDay == 1440

\* days_int & 2^n # 0
Bit(mask, n) == (mask \div (2 ^ n)) % 2 = 1

\* The weekdays (ISO numbers 1..7) appended to alarm_days.
AlarmDays(mask) == { n \in 1..7 : Bit(mask, n) }

\* datetime.combine(nu_dag, alarm_time) + timedelta(days=d)
AlarmTimeFull(time, d) == time[1] * 60 + time[2] + d * MinutesPerDay

\* test_day for offset d
TestDay(wd, d) == IF wd + d > 7 THEN wd + d - 7 ELSE wd + d

\* The branch for an empty alarm_days: what is assigned to new_next_alarm.
OneShot(time, now) ==
    IF AlarmTimeFull(time, 0) > now.t
    THEN [set |-> TRUE, val |-> AlarmTimeFull(time, 0)]
    ELSE IF AlarmTimeFull(time, 1) > now.t
    THEN [set |-> TRUE, val |-> AlarmTimeFull(time, 0)]
    ELSE [set |-> FALSE, val |-> None]

\* The offsets at which the for loop over range(0, 7) would assign.
Hits(time, days, now) ==
    { d \in 0..6 : /\ TestDay(now.wd, d) \in days
                   /\ AlarmTimeFull(time, d) > now.t }

\* A mutation of Scan: the loop runs on after an assignment, so that the
\* last offset that assigns wins.
ScanNoBreak(time, days, now) ==
    LET hits == Hits(time, days, now)
    IN IF hits = {} THEN [set |-> FALSE, val |-> None]
       ELSE [set |-> TRUE,
             val |-> AlarmTimeFull(time, CHOOSE d \in hits : \A x \in hits : d >= x)]

\* The branch for a non-empty alarm_days: the first offset that assigns and
\* breaks; no assignment at all when no offset does.
Scan(time, days, now) ==
    LET hits == Hits(time, days, now)
    IN IF hits = {} THEN [set |-> FALSE, val |-> None]
       ELSE [set |-> TRUE,
             val |-> AlarmTimeFull(time, CHOOSE d \in hits : \A x \in hits : d <= x)]

\* What one enabled record assigns to new_next_alarm.
Assigned(r, now) ==
    IF AlarmDays(r.days) = {} THEN OneShot(r.time, now)
    ELSE Scan(r.time, AlarmDays(r.days), now)

\* The loop over list(self.alarm_data) from entry i on.  acc holds
\* next_alarm (best), new_next_alarm (cand, bound once assigned) and the
\* exception that ended the loop.
RECURSIVE NextAlarmLoop(_, _, _, _)
NextAlarmLoop(data, i, now, acc) ==
    IF i > Len(data) \/ acc.err # "" THEN acc
    ELSE IF ~data[i].enabled THEN NextAlarmLoop(data, i + 1, now, acc)
    ELSE IF data[i].time = NoTime
    THEN [acc EXCEPT !.err = "KeyError"]
    ELSE
      LET a == Assigned(data[i], now)
          bound == acc.bound \/ a.set
          cand == IF a.set THEN a.val ELSE acc.cand
      IN IF ~bound THEN [acc EXCEPT !.err = "UnboundLocalError"]
         ELSE NextAlarmLoop(data, i + 1, now,
                [acc EXCEPT !.bound = TRUE, !.cand = cand,
                            !.best = IF acc.best = None \/ cand < acc.best
                                     THEN cand ELSE acc.best])

\* next_alarm() over a registry at an instant: the value returned or the
\* exception raised.
next_alarm(data, now) ==
    LET acc == NextAlarmLoop(data, 1, now,
                 [best |-> None, cand |-> None, bound |-> FALSE, err |-> ""])
    IN IF acc.err # "" THEN Raised(acc.err, "") ELSE Returned(acc.best)

NextAlarm ==
    /\ Begin([NoCall EXCEPT !.op = "next_alarm"])
    /\ outcome' = next_alarm(alarm_data, clock)
    /\ built' = << >>
    /\ req' = NoReq
    /\ pc' = "idle"
    /\ nget' = 0
    /\ nput' = 0
    /\ enabled_alarms' = << >>
    /\ time_alarms' = << >>
    /\ UNCHANGED << alarm_data, snoozetime, blobs, refreshes, setter_calls >>

\* Registries and instants next_alarm is applied to.
SchedTimes == { <<6, 0>>, <<8, 0>>, <<9, 30>> }
SchedMasks == { 0, 1, 8, 192, 254 }
SchedClocks == { [wd |-> 3, t |-> 480], [wd |-> 7, t |-> 480] }
SchedRecords(i) ==
    { [position |-> i, enabled |-> e, time |-> tm, days |-> m] :
        e \in BOOLEAN, tm \in SchedTimes, m \in SchedMasks }
    \cup { [position |-> i, enabled |-> e, time |-> NoTime, days |-> None] :
             e \in BOOLEAN }
SchedRegistries ==
    UNION { { d \in [1..k -> UNION { SchedRecords(i) : i \in 1..k }] :
                \A i \in 1..k : d[i].position = i } : k \in 0..MaxSlots }

SchedInit ==
    /\ alarm_data \in SchedRegistries
    /\ clock \in SchedClocks
    /\ snoozetime = None
    /\ pc = "idle"
    /\ call = NoCall
    /\ req = NoReq
    /\ attempts = 0
    /\ lastOutcome = "none"
    /\ logged = ""
    /\ outcome = NoOutcome
    /\ nget = 0
    /\ nput = 0
    /\ built = << >>
    /\ enabled_alarms = << >>
    /\ time_alarms = << >>
    /\ blobs = NoBlobs
    /\ refreshes = 0
    /\ threads = NoThreads
    /\ overlapped = FALSE
    /\ setter_calls = 0

\* The registry may also change between two computations: an alarm is
\* switched on or off.
SchedNext ==
    \/ NextAlarm
    \/ ToggleAlarm

SpecSched == SchedInit /\ [][SchedNext]_vars

(***************************************************************************)
(* Somneo.update: ten GETs, each assigned to its attribute, then           *)
(* self.alarm.update_alarm().  The device answers the GETs of the g-th     *)
(* refresh with its g-th state.                                            *)
(***************************************************************************)
\* The device's light, audio and dusk blobs in its g-th state (the fields
\* of the answers quoted in Somneo.__init__).
DevLight(g) ==
    [ltlvl |-> 10 + g, onoff |-> (g % 2 = 0), tempy |-> FALSE, ctype |-> g % 4]
DevAudio(g) ==
    [onoff |-> (g % 2 = 0), tempy |-> FALSE, sdvol |-> 10 + g, sndss |-> 0,
     snddv |-> IF g % 2 = 1 THEN "off" ELSE "wus", sndch |-> "1"]
DevDusk(g) ==
    [onoff |-> (g % 2 = 0), curve |-> 10 + g, durat |-> 20 + g, ctype |-> g % 4,
     sndtp |-> 0, snddv |-> IF g % 2 = 1 THEN "dus" ELSE "fmr", sndch |-> "1",
     sndlv |-> 10 + g, sndss |-> 0]

\* r.json() of GET url in the device's g-th state.  The blobs no setter
\* touches are told apart by endpoint and state only.
Response(url, g) ==
    CASE url = "wulgt" -> DevLight(g)
      [] url = "wuply" -> DevAudio(g)
      [] url = "wudsk" -> DevDusk(g)
      [] OTHER -> [url |-> url, state |-> g]

\* A mutation of UpdateOrder: the light and the audio endpoints change
\* places.
UpdateOrderSwapped ==
    << << "timezone_status", "wutms" >>, << "relax_status", "wurlx" >>,
       << "dusk_status", "wudsk" >>, << "timer_runtime", "wutmr" >>,
       << "settings_info", "wusts" >>, << "light_data", "wuply" >>,
       << "sensor_data", "wusrd" >>, << "device_info", "device" >>,
       << "audio_info", "wulgt" >>, << "night_data", "wungt" >> >>

\* The assignments of update(), in their order: attribute and endpoint.
UpdateOrder ==
    << << "timezone_status", "wutms" >>, << "relax_status", "wurlx" >>,
       << "dusk_status", "wudsk" >>, << "timer_runtime", "wutmr" >>,
       << "settings_info", "wusts" >>, << "light_data", "wulgt" >>,
       << "sensor_data", "wusrd" >>, << "device_info", "device" >>,
       << "audio_info", "wuply" >>, << "night_data", "wungt" >> >>

\* update() entered: the first GET is on its way.
Update ==
    /\ Begin([NoCall EXCEPT !.op = "update"])
    /\ refreshes < MaxRefresh
    /\ refreshes' = refreshes + 1
    /\ pc' = UpdateOrder[1][2]
    /\ req' = Get(UpdateOrder[1][2])
    /\ nget' = 1
    /\ nput' = 0
    /\ outcome' = NoOutcome
    /\ built' = << >>
    /\ enabled_alarms' = << >>
    /\ time_alarms' = << >>
    /\ UNCHANGED << alarm_data, snoozetime, blobs, setter_calls >>

\* The k-th GET of update() answered: the answer is assigned to its
\* attribute and the next GET begins, the one of update_alarm after the
\* last blob.
ReturnBlob(k) ==
    /\ call.op = "update"
    /\ pc = UpdateOrder[k][2]
    /\ req # NoReq
    /\ blobs' = [blobs EXCEPT ![UpdateOrder[k][1]] = Response(UpdateOrder[k][2], refreshes)]
    /\ lastOutcome' = "response"
    /\ LET next == IF k < Len(UpdateOrder) THEN UpdateOrder[k + 1][2] ELSE "wualm"
       IN pc' = next /\ req' = Get(next)
    /\ attempts' = 0
    /\ nget' = nget + 1
    /\ UNCHANGED << alarm_data, snoozetime, call, logged, outcome, nput, built,
                    enabled_alarms, time_alarms, clock, refreshes, threads,
                    overlapped, setter_calls >>

\* The alarm arrays the device reports during a full refresh: one slot.
RefreshFlags == [1..1 -> BOOLEAN]
RefreshTimes == [1..1 -> DevTimes]

RefreshNext ==
    \/ Update
    \/ \E k \in 1..Len(UpdateOrder) : ReturnBlob(k)
    \/ \E e \in AttemptExceptions : AttemptContinue(e)
    \/ \E e \in AttemptExceptions : AttemptRaise(e)
    \/ \E content \in Bodies422 : Attempt422(content)
    \/ AttemptNotJson
    \/ \E s \in DevSnooze : ReturnSnooze(s)
    \/ \E en \in RefreshFlags : ReturnEnabled(en)
    \/ \E tm \in RefreshTimes : ReturnTimes(tm)

SpecRefresh == Init /\ [][RefreshNext]_vars

(***************************************************************************)
(* Somneo.set_light, set_audio, set_sunset: the cached blob is changed in  *)
(* place and then PUT as a whole.  Text values: "None" is Python's None,   *)
(* "" the empty string, "int 0" and "int 1" the integers where a channel   *)
(* is expected, any other text the string itself.                          *)
(***************************************************************************)
\* put(url, payload): _internal_call('PUT', url, headers, payload) entered.
Put(url, payload) == [method |-> "PUT", url |-> url, payload |-> payload]

\* "if x:" on a text value.
TruthyText(x) == x \notin {"None", "", "int 0"}

\* The members of the enum LightCurves and their values.
LightCurves ==
    [m \in {"SUNNY_DAY", "ISLAND_RED", "NORDIC_WHITE", "CARRIBEAN_RED", "NO_LIGHT"} |->
        CASE m = "SUNNY_DAY" -> 0
          [] m = "ISLAND_RED" -> 1
          [] m = "NORDIC_WHITE" -> 2
          [] m = "CARRIBEAN_RED" -> 3
          [] m = "NO_LIGHT" -> 4]

\* How far a setter got: the blob as it left it and the exception that
\* ended it before the put ("" when it got there).
Set(b, e) == [blob |-> b, exc |-> e]

\* blob[k] = v under "if test:"
WithIf(b, test, k, v) == IF test THEN With(b, k, v) ELSE b

\* set_light; color_type is "None" or a member of LightCurves.
set_light(b, a) ==
    IF b = NoBlob THEN Set(b, "TypeError")
    ELSE Set(WithIf(WithIf(With(b, "onoff", a.enable),
                           Truthy(a.light_intensity), "ltlvl", a.light_intensity),
                    a.color_type # "None" /\ a.color_type # "NO_LIGHT",
                    "ctype", IF a.color_type \in DOMAIN LightCurves
                             THEN LightCurves[a.color_type] ELSE None),
             "")

\* A mutation of set_audio: sound_device is tested like the other
\* parameters.
set_audio_tested(b, a) ==
    IF b = NoBlob THEN Set(b, "TypeError")
    ELSE Set(WithIf(WithIf(WithIf(With(b, "onoff", a.enable),
                                  TruthyText(a.sound_device), "snddv", a.sound_device),
                           Truthy(a.sound_volume), "sdvol", a.sound_volume),
                    TruthyText(a.sound_channel), "sndch", a.sound_channel),
             "")

set_audio(b, a) ==
    IF b = NoBlob THEN Set(b, "TypeError")
    ELSE Set(WithIf(WithIf(With(With(b, "onoff", a.enable), "snddv", a.sound_device),
                           Truthy(a.sound_volume), "sdvol", a.sound_volume),
                    TruthyText(a.sound_channel), "sndch", a.sound_channel),
             "")

set_sunset(b, a) ==
    IF b = NoBlob THEN Set(b, "TypeError")
    ELSE Set(WithIf(WithIf(WithIf(WithIf(WithIf(WithIf(With(b, "onoff", a.enable),
                Truthy(a.light_intensity), "curve", a.light_intensity),
                Truthy(a.duration), "durat", a.duration),
                Truthy(a.color_type), "ctype", a.color_type),
                TruthyText(a.sound_device), "snddv", a.sound_device),
                TruthyText(a.sound_channel), "sndch", a.sound_channel),
                Truthy(a.volume), "sndlv", a.volume),
             "")

\* Arguments the caller passes in the model.  For set_audio and
\* set_sunset: the call without arguments (the defaults of the signature),
\* the calls that pass one argument, falsy or truthy, and the call that
\* passes every argument.
LightArgs ==
    [enable : BOOLEAN, light_intensity : {None, 0, 15},
     color_type : {"None", "SUNNY_DAY", "NO_LIGHT"}]
AudioDefaults ==
    [enable |-> FALSE, sound_device |-> "fmr", sound_volume |-> None,
     sound_channel |-> "None"]
AudioArgs ==
    { [AudioDefaults EXCEPT !.enable = x] : x \in BOOLEAN }
    \cup { [AudioDefaults EXCEPT !.sound_device = x] : x \in {"None", "", "off"} }
    \cup { [AudioDefaults EXCEPT !.sound_volume = x] : x \in {0, 10} }
    \cup { [AudioDefaults EXCEPT !.sound_channel = x] : x \in {"", "2"} }
    \cup { [enable |-> TRUE, sound_device |-> "off", sound_volume |-> 10,
             sound_channel |-> "2"] }
SunsetDefaults ==
    [enable |-> FALSE, duration |-> None, light_intensity |-> None,
     color_type |-> None, sound_device |-> "dus", sound_channel |-> "int 1",
     volume |-> None]
SunsetArgs ==
    { [SunsetDefaults EXCEPT !.enable = x] : x \in BOOLEAN }
    \cup { [SunsetDefaults EXCEPT !.duration = x] : x \in {0, 45} }
    \cup { [SunsetDefaults EXCEPT !.light_intensity = x] : x \in {0, 20} }
    \cup { [SunsetDefaults EXCEPT !.color_type = x] : x \in {0, 3} }
    \cup { [SunsetDefaults EXCEPT !.sound_device = x] : x \in {"None", "", "off"} }
    \cup { [SunsetDefaults EXCEPT !.sound_channel = x] : x \in {"None", "int 0", "2"} }
    \cup { [SunsetDefaults EXCEPT !.volume = x] : x \in {0, 8} }
    \cup { [enable |-> TRUE, duration |-> 45, light_intensity |-> 20,
             color_type |-> 3, sound_device |-> "off", sound_channel |-> "2",
             volume |-> 8] }

\* A mutation of SetterUrl: set_audio writes to the light endpoint.
SetterUrlCrossed ==
    [op \in {"set_light", "set_audio", "set_sunset"} |->
        CASE op = "set_light" -> "wulgt"
          [] op = "set_audio" -> "wulgt"
          [] op = "set_sunset" -> "wudsk"]

\* The endpoint each setter puts to and the attribute it changes.
SetterUrl ==
    [op \in {"set_light", "set_audio", "set_sunset"} |->
        CASE op = "set_light" -> "wulgt"
          [] op = "set_audio" -> "wuply"
          [] op = "set_sunset" -> "wudsk"]
SetterAttr ==
    [op \in {"set_light", "set_audio", "set_sunset"} |->
        CASE op = "set_light" -> "light_data"
          [] op = "set_audio" -> "audio_info"
          [] op = "set_sunset" -> "dusk_status"]

\* A setter call up to its put: the blob is changed and the PUT is on its
\* way, or the call has ended in r.exc.
Setter(op, a, r) ==
    /\ Begin([NoCall EXCEPT !.op = op, !.args = a])
    /\ setter_calls < MaxSetterCalls
    /\ setter_calls' = setter_calls + 1
    /\ blobs' = [blobs EXCEPT ![SetterAttr[op]] = r.blob]
    /\ IF r.exc = ""
       THEN /\ req' = Put(SetterUrl[op], r.blob)
            /\ pc' = SetterUrl[op]
            /\ nput' = 1
            /\ outcome' = NoOutcome
       ELSE /\ req' = NoReq
            /\ pc' = "idle"
            /\ nput' = 0
            /\ outcome' = Raised(r.exc, "")
    /\ nget' = 0
    /\ built' = << >>
    /\ enabled_alarms' = << >>
    /\ time_alarms' = << >>
    /\ UNCHANGED << alarm_data, snoozetime, refreshes >>

SetLight == \E a \in LightArgs : Setter("set_light", a, set_light(blobs.light_data, a))
SetAudio == \E a \in AudioArgs : Setter("set_audio", a, set_audio(blobs.audio_info, a))
SetSunset == \E a \in SunsetArgs : Setter("set_sunset", a, set_sunset(blobs.dusk_status, a))

\* The PUT answered: the setter returns r.json().
ReturnPut ==
    /\ call.op \in DOMAIN SetterUrl
    /\ req # NoReq
    /\ lastOutcome' = "response"
    /\ attempts' = Min(attempts + 1, MaxAttempts)
    /\ outcome' = Returned(None)
    /\ req' = NoReq
    /\ pc' = "idle"
    /\ UNCHANGED << alarm_data, snoozetime, call, logged, nget, nput, built,
                    enabled_alarms, time_alarms, clock, blobs, refreshes, threads,
                    overlapped, setter_calls >>

\* The object before any refresh, and after the g-th refresh has returned
\* with one alarm slot.
Refreshed(g) ==
    IF g = 0 THEN NoBlobs
    ELSE [a \in BlobAttrs |->
            LET k == CHOOSE i \in 1..Len(UpdateOrder) : UpdateOrder[i][1] = a
            IN Response(UpdateOrder[k][2], g)]

SetterInit ==
    /\ refreshes \in 0..MaxRefresh
    /\ blobs = Refreshed(refreshes)
    /\ alarm_data = IF refreshes = 0 THEN << >>
                    ELSE << Record(1, << TRUE >>, << << 6, 0, 0 >> >>) >>
    /\ snoozetime = IF refreshes = 0 THEN None ELSE 9
    /\ pc = "idle"
    /\ call = NoCall
    /\ req = NoReq
    /\ attempts = 0
    /\ lastOutcome = "none"
    /\ logged = ""
    /\ outcome = NoOutcome
    /\ nget = 0
    /\ nput = 0
    /\ built = << >>
    /\ enabled_alarms = << >>
    /\ time_alarms = << >>
    /\ clock = [wd |-> 3, t |-> 480]
    /\ threads = NoThreads
    /\ overlapped = FALSE
    /\ setter_calls = 0

SetterNext ==
    \/ SetLight
    \/ SetAudio
    \/ SetSunset
    \/ ReturnPut
    \/ \E e \in AttemptExceptions : AttemptContinue(e)
    \/ \E e \in AttemptExceptions : AttemptRaise(e)
    \/ \E content \in Bodies422 : Attempt422(content)
    \/ AttemptNotJson

SpecSetters == SetterInit /\ [][SetterNext]_vars

(***************************************************************************)
(* The local cache under writes: the three setters of Somneo and the two   *)
(* alarm mutations that change the registry, toggle_alarm and set_alarm,   *)
(* on the object a refresh left behind.                                    *)
(***************************************************************************)
\* The registry update_alarm left at the refresh: one alarm at 06:30 on
\* the working days, alone or followed by the half-built record of a slot
\* the device sent a flag but no time for.
CachedAlarms ==
    { << Record(1, << TRUE >>, << << 6, 30, 62 >> >>) >>,
      << Record(1, << TRUE, FALSE >>, << << 6, 30, 62 >> >>),
         HalfRecord(2, << TRUE, FALSE >>) >> }

CacheInit ==
    /\ refreshes \in 0..MaxRefresh
    /\ blobs = Refreshed(refreshes)
    /\ alarm_data \in (IF refreshes = 0 THEN { << >> } ELSE CachedAlarms)
    /\ snoozetime = IF refreshes = 0 THEN None ELSE 9
    /\ pc = "idle"
    /\ call = NoCall
    /\ req = NoReq
    /\ attempts = 0
    /\ lastOutcome = "none"
    /\ logged = ""
    /\ outcome = NoOutcome
    /\ nget = 0
    /\ nput = 0
    /\ built = << >>
    /\ enabled_alarms = << >>
    /\ time_alarms = << >>
    /\ clock = [wd |-> 3, t |-> 480]
    /\ threads = NoThreads
    /\ overlapped = FALSE
    /\ setter_calls = 0

\* One setter call per run here: the alarm mutations before and after it
\* are not counted.
CacheNext ==
    \/ setter_calls < MaxCacheCalls /\ SetLight
    \/ setter_calls < MaxCacheCalls /\ SetAudio
    \/ setter_calls < MaxCacheCalls /\ SetSunset
    \/ ToggleAlarm
    \/ SetAlarm
    \/ ReturnPut
    \/ \E e \in AttemptExceptions : AttemptContinue(e)
    \/ \E e \in AttemptExceptions : AttemptRaise(e)
    \/ \E content \in Bodies422 : Attempt422(content)
    \/ AttemptNotJson

SpecCache == CacheInit /\ [][CacheNext]_vars

(***************************************************************************)
(* The day mask: alarm_settings decodes it, day_int encodes it.            *)
(***************************************************************************)
\* alarm_days.append(name) under "if days_int & w:"
AppendIf(l, test, name) == IF test THEN Append(l, name) ELSE l

\* The list alarm_settings builds from days_int.
DayNames(mask) ==
    AppendIf(AppendIf(AppendIf(AppendIf(AppendIf(AppendIf(AppendIf(<< >>,
        Bit(mask, 1), "mon"), Bit(mask, 2), "tue"), Bit(mask, 3), "wed"),
        Bit(mask, 4), "thu"), Bit(mask, 5), "fri"), Bit(mask, 6), "sat"),
        Bit(mask, 7), "sun")

\* alarm_settings(alarm): the time (its isoformat string stands for the
\* minutes since midnight) and the list of day names, or KeyError for an
\* alarm that is not in the registry or has no time.
alarm_settings(a) ==
    IF ~Exists(a) THEN Raised("KeyError", "")
    ELSE IF alarm_data[a].time = NoTime THEN Raised("KeyError", "")
    ELSE [Returned(alarm_data[a].time[1] * 60 + alarm_data[a].time[2])
            EXCEPT !.days = DayNames(alarm_data[a].days)]

\* bool * int: True counts as 1, False as 0.
Times(flag, w) == IF flag THEN w ELSE 0

\* A mutation of day_int: the weights start at bit 0.
day_int_bit0(mon, tue, wed, thu, fri, sat, sun) ==
    Times(mon, 1) + Times(tue, 2) + Times(wed, 4) + Times(thu, 8)
    + Times(fri, 16) + Times(sat, 32) + Times(sun, 64)

day_int(mon, tue, wed, thu, fri, sat, sun) ==
    Times(mon, 2) + Times(tue, 4) + Times(wed, 8) + Times(thu, 16)
    + Times(fri, 32) + Times(sat, 64) + Times(sun, 128)

\* name in alarm_days
InList(name, l) == \E k \in 1..Len(l) : l[k] = name

\* An operation that reads the registry and returns.
Query(c, result) ==
    /\ Begin(c)
    /\ outcome' = result
    /\ built' = << >>
    /\ req' = NoReq
    /\ pc' = "idle"
    /\ nget' = 0
    /\ nput' = 0
    /\ enabled_alarms' = << >>
    /\ time_alarms' = << >>
    /\ UNCHANGED << alarm_data, snoozetime, blobs, refreshes, setter_calls >>

AlarmSettings ==
    \E a \in AlarmIds :
        Query([NoCall EXCEPT !.op = "alarm_settings", !.alarm = a], alarm_settings(a))

\* The caller encodes the day list it was handed: day_int with one flag
\* per day name.
DayInt ==
    /\ call.op = "alarm_settings"
    /\ outcome.kind = "return"
    /\ LET l == outcome.days
       IN Query([call EXCEPT !.op = "day_int"],
                Returned(day_int(InList("mon", l), InList("tue", l), InList("wed", l),
                                 InList("thu", l), InList("fri", l), InList("sat", l),
                                 InList("sun", l))))

\* Every mask 0..255 in the one record of a registry.
Masks == 0..255
MaskInit ==
    /\ alarm_data \in { << [position |-> 1, enabled |-> TRUE,
                             time |-> << 6, 0 >>, days |-> m] >> : m \in Masks }
    /\ snoozetime = None
    /\ pc = "idle"
    /\ call = NoCall
    /\ req = NoReq
    /\ attempts = 0
    /\ lastOutcome = "none"
    /\ logged = ""
    /\ outcome = NoOutcome
    /\ nget = 0
    /\ nput = 0
    /\ built = << >>
    /\ enabled_alarms = << >>
    /\ time_alarms = << >>
    /\ clock = [wd |-> 3, t |-> 480]
    /\ blobs = NoBlobs
    /\ refreshes = 0
    /\ threads = NoThreads
    /\ overlapped = FALSE
    /\ setter_calls = 0

MaskNext ==
    \/ AlarmSettings
    \/ DayInt

SpecMask == MaskInit /\ [][MaskNext]_vars

(***************************************************************************)
(* Two callers in set_alarm on one alarm at the same time.  Nothing in     *)
(* the class serialises them, so their statements interleave; a statement  *)
(* that reads the record's time and stores a new time is a read followed   *)
(* by a store.                                                             *)
(***************************************************************************)
Callers == {1, 2}
Other(t) == 3 - t

\* The record both callers work on, as a refresh left it.
SharedRecord == [position |-> 1, enabled |-> TRUE, time |-> << 9, 30 >>, days |-> 254]

\* Where a caller goes on after the statements of hour, minute, days.
GoDays(th) == IF IsNotNone(th.days) THEN "days_store" ELSE "put"
GoMinute(th) == IF IsNotNone(th.minute) THEN "minute_read" ELSE GoDays(th)
GoHour(th) == IF IsNotNone(th.hour) THEN "hour_read" ELSE GoMinute(th)

\* The caller is inside set_alarm.
Running(th) == th.pc \notin {"enter", "done"}

\* One statement (or half of one) of caller t: its new locals th and the
\* registry afterwards.
ThreadStep(t, th, data) ==
    /\ threads' = [threads EXCEPT ![t] = th]
    /\ alarm_data' = data
    /\ overlapped' = (overlapped \/ Running(threads[Other(t)]))
    /\ UNCHANGED << snoozetime, pc, call, req, attempts, lastOutcome, logged,
                    outcome, nget, nput, built, enabled_alarms, time_alarms,
                    clock, blobs, refreshes, setter_calls >>

\* alarm_settings = dict(); alarm_settings['prfnr'] = ...['position']
Enter(t) ==
    LET th == threads[t]
    IN /\ th.pc = "enter"
       /\ IF Exists(th.alarm)
          THEN ThreadStep(t, [th EXCEPT !.payload = PrfNr(th.alarm), !.pc = GoHour(th)],
                          alarm_data)
          ELSE ThreadStep(t, [th EXCEPT !.exc = "KeyError", !.pc = "done"], alarm_data)

\* almhr goes into the payload and self.alarm_data[alarm]['time'].minute is
\* read for the new time.
HourRead(t) ==
    LET th == threads[t]
    IN /\ th.pc = "hour_read"
       /\ ThreadStep(t, [th EXCEPT !.payload = With(th.payload, "almhr", th.hour),
                                   !.read = alarm_data[th.alarm].time[2],
                                   !.pc = "hour_store"],
                      alarm_data)

\* A mutation of HourStored: the new time is built with minute 0.
HourStoredOnTheHour(r, hour, minute) == [r EXCEPT !.time = << hour, 0 >>]

\* self.alarm_data[alarm]['time'] = datetime.time(int(hour), <minute read>)
HourStored(r, hour, minute) == [r EXCEPT !.time = << hour, minute >>]

HourStore(t) ==
    LET th == threads[t]
    IN /\ th.pc = "hour_store"
       /\ ThreadStep(t, [th EXCEPT !.pc = GoMinute(th)],
                      [alarm_data EXCEPT ![th.alarm] = HourStored(@, th.hour, th.read)])

\* almmn goes into the payload and self.alarm_data[alarm]['time'].hour is
\* read for the new time.
MinuteRead(t) ==
    LET th == threads[t]
    IN /\ th.pc = "minute_read"
       /\ ThreadStep(t, [th EXCEPT !.payload = With(th.payload, "almmn", th.minute),
                                   !.read = alarm_data[th.alarm].time[1],
                                   !.pc = "minute_store"],
                      alarm_data)

\* self.alarm_data[alarm]['time'] = datetime.time(<hour read>, int(minute))
MinuteStored(r, hour, minute) == [r EXCEPT !.time = << hour, minute >>]

MinuteStore(t) ==
    LET th == threads[t]
    IN /\ th.pc = "minute_store"
       /\ ThreadStep(t, [th EXCEPT !.pc = GoDays(th)],
                      [alarm_data EXCEPT ![th.alarm] = MinuteStored(@, th.read, th.minute)])

\* daynm goes into the payload and the record's days are stored.
DaysStore(t) ==
    LET th == threads[t]
    IN /\ th.pc = "days_store"
       /\ ThreadStep(t, [th EXCEPT !.payload = With(th.payload, "daynm", th.days),
                                   !.pc = "put"],
                      [alarm_data EXCEPT ![th.alarm].days = th.days])

\* self._put(...): the attribute lookup fails and the call is over.
PutCall(t) ==
    LET th == threads[t]
    IN /\ th.pc = "put"
       /\ ThreadStep(t, [th EXCEPT !.exc = AlarmPut.exc, !.pc = "done"], alarm_data)

\* The two calls: any arguments, both on the first alarm.
ThreadCalls ==
    { [pc |-> "enter", alarm |-> 1, hour |-> h, minute |-> m, days |-> d,
       read |-> None, payload |-> << >>, exc |-> ""] :
        h \in ArgHours, m \in ArgMinutes, d \in ArgDays }

ConcInit ==
    /\ alarm_data = << SharedRecord >>
    /\ threads \in [Callers -> ThreadCalls]
    /\ overlapped = FALSE
    /\ snoozetime = 9
    /\ pc = "idle"
    /\ call = NoCall
    /\ req = NoReq
    /\ attempts = 0
    /\ lastOutcome = "none"
    /\ logged = ""
    /\ outcome = NoOutcome
    /\ nget = 0
    /\ nput = 0
    /\ built = << >>
    /\ enabled_alarms = << >>
    /\ time_alarms = << >>
    /\ clock = [wd |-> 3, t |-> 480]
    /\ blobs = NoBlobs
    /\ refreshes = 0
    /\ setter_calls = 0

ConcNext ==
    \E t \in Callers :
        \/ Enter(t)
        \/ HourRead(t)
        \/ HourStore(t)
        \/ MinuteRead(t)
        \/ MinuteStore(t)
        \/ DaysStore(t)
        \/ PutCall(t)

SpecConc == ConcInit /\ [][ConcNext]_vars

(***************************************************************************)
(* Properties.                                                             *)
(***************************************************************************)
MutationOps == { "set_alarm", "toggle_alarm", "add_alarm", "remove_alarm",
                 "set_light_alarm", "set_sound_alarm", "set_powerwake" }

\* The last operation was op, on an alarm id of the registry, and is over.
DoneOn(op) == call.op = op /\ pc = "idle" /\ Exists(call.alarm)

\* Every record of the registry has its time and days.
Complete == \A i \in 1..Len(alarm_data) : alarm_data[i].time # NoTime

Enabled == { i \in 1..Len(alarm_data) : alarm_data[i].enabled }

\* C1: in the request loop a timeout ends the call at once with the timeout
\* error, a connection failure leaves the loop running on the same request
\* (another attempt follows), and any other request failure ends the call
\* at once with that error.
C1_RetryPolicy ==
    /\ IsTimeout(lastOutcome) =>
          req = NoReq /\ pc = "idle" /\ outcome = Raised(lastOutcome, "")
    /\ lastOutcome = "ConnectionError" =>
          req = Get(pc) /\ outcome = NoOutcome
    /\ lastOutcome = "RequestException" =>
          req = NoReq /\ pc = "idle" /\ outcome = Raised("RequestException", "")

\* C1 witness: a request was retried after a connection failure and then
\* ended by a read timeout.
C1_Witness ==
    /\ lastOutcome = "ReadTimeout"
    /\ attempts = 2
    /\ outcome = Raised("ReadTimeout", "")
    /\ call.op = "update_alarm"

\* C2 (as claimed): a 422 answer ends the call with an error that carries
\* the response body.
C2_Claim ==
    lastOutcome = "422" =>
        outcome.kind = "raise" /\ outcome.carried = logged

\* What next_alarm yields for record i alone: that alarm's own candidate.
Alone(i) == next_alarm(<< alarm_data[i] >>, clock)
\* The registry with its records in the opposite order.
Reversed(d) == [i \in 1..Len(d) |-> d[Len(d) + 1 - i]]

\* C3 (as claimed): next_alarm returns None exactly when no alarm is
\* enabled, otherwise the least of the enabled alarms' own candidates,
\* whatever the order of the records.
C3_Claim ==
    (call.op = "next_alarm" /\ Complete) =>
        /\ outcome.kind = "return"
        /\ (outcome.value = None) <=> (Enabled = {})
        /\ Enabled # {} =>
              /\ \A i \in Enabled : Alone(i).kind = "return" /\ outcome.value <= Alone(i).value
              /\ \E i \in Enabled : outcome.value = Alone(i).value
        /\ next_alarm(Reversed(alarm_data), clock) = outcome

\* C4 (as claimed): with one alarm enabled and no day bit in its mask, the
\* result is its time today when that is still ahead, else its time
\* tomorrow.
C4_Claim ==
    (call.op = "next_alarm" /\ Complete) =>
        \A i \in Enabled :
            (Enabled = {i} /\ AlarmDays(alarm_data[i].days) = {}) =>
                outcome = Returned(
                    IF AlarmTimeFull(alarm_data[i].time, 0) > clock.t
                    THEN AlarmTimeFull(alarm_data[i].time, 0)
                    ELSE AlarmTimeFull(alarm_data[i].time, 1))

\* C5 (as claimed): with one alarm enabled whose only weekday is today and
\* whose time is not after now, the result is its time seven days ahead.
C5_Claim ==
    (call.op = "next_alarm" /\ Complete) =>
        \A i \in Enabled :
            (/\ Enabled = {i}
             /\ AlarmDays(alarm_data[i].days) = {clock.wd}
             /\ AlarmTimeFull(alarm_data[i].time, 0) <= clock.t) =>
                outcome = Returned(AlarmTimeFull(alarm_data[i].time, 7))

C7_Claim ==
    (/\ pc = "idle"
     /\ \/ call.op \in MutationOps /\ Exists(call.alarm)
        \/ call.op = "set_snooze_time"
     /\ outcome.exc # "KeyError") =>
        nput = 1 /\ nget = 0

\* The payload fields of the arguments a set_alarm call supplies.
Supplied(c) ==
    (IF c.hour # None THEN {"almhr"} ELSE {})
    \cup (IF c.minute # None THEN {"almmn"} ELSE {})
    \cup (IF c.days # None THEN {"daynm"} ELSE {})
\* What a set_alarm step on a complete record does.
C8_Step ==
    (/\ call'.op = "set_alarm"
     /\ vars' # vars
     /\ Exists(call'.alarm)
     /\ alarm_data[call'.alarm].time # NoTime) =>
        LET c == call'
            a == c.alarm
            old == alarm_data[a]
            new == alarm_data'[a]
        IN /\ DOMAIN built' = {"prfnr"} \cup Supplied(c)
           /\ built'["prfnr"] = old.position
           /\ c.hour # None => built'["almhr"] = c.hour
           /\ c.minute # None => built'["almmn"] = c.minute
           /\ c.days # None => built'["daynm"] = c.days
           /\ Len(alarm_data') = Len(alarm_data)
           /\ new.time[1] = IF c.hour # None THEN c.hour ELSE old.time[1]
           /\ new.time[2] = IF c.minute # None THEN c.minute ELSE old.time[2]
           /\ new.days = IF c.days # None THEN c.days ELSE old.days
           /\ new.position = old.position /\ new.enabled = old.enabled
           /\ \A i \in 1..Len(alarm_data) : i # a => alarm_data'[i] = alarm_data[i]

\* C8: a set_alarm step on a complete record builds a payload of prfnr plus
\* exactly the supplied fields with the supplied values, sets the supplied
\* components of the record, keeps the others, and leaves every other
\* record as it was.
C8_SetAlarmFrame == [][C8_Step]_vars

\* C8 witness: set_alarm(hour=0, days=0) ran on the second of two alarms,
\* which was set to 09:30 every day and now reads 00:30 once, while the
\* first alarm is still 06:00.
C8_Witness ==
    /\ DoneOn("set_alarm")
    /\ call.alarm = 2 /\ call.hour = 0 /\ call.minute = None /\ call.days = 0
    /\ alarm_data[2].time = << 0, 30 >> /\ alarm_data[2].days = 0
    /\ alarm_data[1].time = << 6, 0 >>
    /\ DOMAIN built = {"prfnr", "almhr", "daynm"}

\* C9 (as claimed): after toggle_alarm the record's enabled flag is the
\* status and the device has received one PUT with prfen = status, and
\* prfvs = true when enabling.
C9_Claim ==
    DoneOn("toggle_alarm") =>
        /\ alarm_data[call.alarm].enabled = call.status
        /\ nput = 1
        /\ built["prfen"] = call.status
        /\ call.status => built["prfvs"] = TRUE

\* C10 (as claimed): after a refresh that returned, the registry is one
\* record per slot of the response just read and nothing else (stated here
\* for registries whose records are all complete).
C10_Claim ==
    (call.op = "update_alarm" /\ pc = "idle" /\ outcome.kind = "return"
     /\ Complete) =>
        /\ Len(alarm_data) = Len(enabled_alarms)
        /\ \A i \in 1..Len(alarm_data) :
              alarm_data[i] = Record(i, enabled_alarms, time_alarms)

\* C11 (as claimed): a refresh that read a flags array and a time array of
\* different lengths ends with an error.
C11_Claim ==
    (/\ call.op = "update_alarm" /\ pc = "idle" /\ lastOutcome = "response"
     /\ Len(enabled_alarms) # Len(time_alarms)) =>
        outcome.kind = "raise"

\* The call names a curve, source or channel outside the tables.
UnknownName(c) ==
    \/ c.op = "set_light_alarm" /\ c.name \notin DOMAIN LIGHT_CURVES
    \/ /\ c.op = "set_sound_alarm"
       /\ \/ c.name \notin DOMAIN SOUND_SOURCE
          \/ c.name = "wake-up" /\ c.channel \notin DOMAIN SOUND_CHANNEL
\* What a set_light_alarm or set_sound_alarm step with such a name does.
C15_Step ==
    (vars' # vars /\ UnknownName(call')) =>
        /\ pc = "idle" /\ pc' = "idle"
        /\ outcome' = Raised("KeyError", "")
        /\ req' = NoReq /\ nget' = 0 /\ nput' = 0
        /\ alarm_data' = alarm_data
        /\ snoozetime' = snoozetime
        /\ blobs' = blobs

\* C15: set_light_alarm with an unknown curve, and set_sound_alarm with an
\* unknown source or with source wake-up and an unknown channel, end in the
\* same step with KeyError; no request is made and the registry, the snooze
\* time and every cached blob stay as they were.
C15_LookupError == [][C15_Step]_vars

\* C15 witness: set_sound_alarm('wake-up', '97.5') on an alarm of the
\* registry ended in KeyError.
C15_Witness ==
    /\ DoneOn("set_sound_alarm")
    /\ call.name = "wake-up" /\ call.channel = "97.5"
    /\ outcome = Raised("KeyError", "")

\* Positions in a state: record i (key 'alarm<i-1>') has position i, the
\* payload of a finished mutation on an alarm of the registry has its prfnr.
C16_State ==
    /\ \A i \in 1..Len(alarm_data) : alarm_data[i].position = i
    /\ \A i, j \in 1..Len(alarm_data) :
          i # j => alarm_data[i].position # alarm_data[j].position
    /\ (call.op \in MutationOps /\ pc = "idle" /\ Exists(call.alarm)) =>
          built["prfnr"] = alarm_data[call.alarm].position
\* Positions in a step: a record that exists keeps its position.
C16_Step ==
    /\ Len(alarm_data') >= Len(alarm_data)
    /\ \A i \in 1..Len(alarm_data) : alarm_data'[i].position = alarm_data[i].position

\* C16: in every reachable state distinct records have distinct positions
\* and each position is the slot index + 1; no step changes the position of
\* a record; the payload a mutation builds carries the record's position
\* as prfnr.
C16_Positions == [](C16_State) /\ [][C16_Step]_vars

\* C16 witness: after a refresh that failed half way through slot 2, a
\* mutation ran on that slot and built a payload with prfnr 2.
C16_Witness ==
    /\ call.op \in MutationOps /\ pc = "idle"
    /\ Len(alarm_data) = 2 /\ call.alarm = 2
    /\ alarm_data[2].time = NoTime
    /\ built["prfnr"] = 2

\* The loop is never out of attempts: while a request is open, one more
\* attempt that fails to connect can follow.
C19_State ==
    req # NoReq => ENABLED AttemptContinue("ConnectionError")
\* An attempt that fails to connect leaves the call open on its request;
\* the step that closes a request is an attempt that ended otherwise.
C19_Step ==
    /\ (req # NoReq /\ attempts' # attempts /\ lastOutcome' = "ConnectionError") =>
          req' = req /\ pc' = pc /\ outcome' = outcome /\ outcome = NoOutcome
    /\ (req # NoReq /\ req' # req) =>
          /\ lastOutcome' \in {"response", "422", "notjson", "ReadTimeout",
                               "ConnectTimeout", "RequestException"}
          /\ attempts' = Min(attempts + 1, MaxAttempts) \/ req' # NoReq

\* C19: the retry after a connection failure has no limit: however many
\* attempts were made, another failing attempt can follow and leaves the
\* call running; a call ends only at an attempt that ended in a response,
\* a timeout or another request error, and at that attempt.
C19_UnboundedRetry == [](C19_State) /\ [][C19_Step]_vars

\* C19 witness: a request still open after MaxAttempts attempts that each
\* failed to connect.
C19_Witness ==
    /\ req # NoReq
    /\ attempts = MaxAttempts
    /\ lastOutcome = "ConnectionError"
    /\ outcome = NoOutcome

\* Offset d suits record r now: the weekday d days from today is one of the
\* record's days and the record's time on that day is after now.
Suits(r, d) ==
    /\ (IF clock.wd + d > 7 THEN clock.wd + d - 7 ELSE clock.wd + d) \in AlarmDays(r.days)
    /\ r.time[1] * 60 + r.time[2] + d * MinutesPerDay > clock.t
\* The instant of the smallest offset in 0..6 that suits record r.
FirstSuiting(r) ==
    LET d == CHOOSE x \in 0..6 : Suits(r, x) /\ \A y \in 0..(x - 1) : ~Suits(r, y)
    IN r.time[1] * 60 + r.time[2] + d * MinutesPerDay

\* C18: when every enabled alarm has a weekday in its mask and an offset in
\* 0..6 that suits it, next_alarm returns the earliest of the enabled
\* alarms' instants at their smallest suiting offset; with one alarm
\* enabled that is this alarm's candidate.
C18_FirstMatch ==
    (/\ call.op = "next_alarm" /\ Complete /\ Enabled # {}
     /\ \A i \in Enabled : /\ AlarmDays(alarm_data[i].days) # {}
                            /\ \E d \in 0..6 : Suits(alarm_data[i], d)) =>
        /\ outcome.kind = "return"
        /\ \A i \in Enabled : outcome.value <= FirstSuiting(alarm_data[i])
        /\ \E i \in Enabled : outcome.value = FirstSuiting(alarm_data[i])

\* C18 witness: on Wednesday 08:00 the only enabled alarm is 06:00 every
\* day, and next_alarm returned Thursday 06:00.
C18_Witness ==
    /\ call.op = "next_alarm"
    /\ clock = [wd |-> 3, t |-> 480]
    /\ Enabled = {1}
    /\ alarm_data[1].time = << 6, 0 >> /\ alarm_data[1].days = 254
    /\ outcome = Returned(MinutesPerDay + 360)

\* C12: for a mask with bit 0 clear, the day list alarm_settings decodes,
\* encoded again by day_int, is the mask (with bit 0 set it is the mask
\* less 1); the weekday numbers next_alarm decodes encode to the same
\* value; 62 decodes to Monday..Friday, 192 to Saturday and Sunday, 254 to
\* all seven days and 0 to no day.
C12_RoundTrip ==
    /\ (call.op = "day_int" /\ Exists(call.alarm)) =>
          LET m == alarm_data[call.alarm].days
              n == AlarmDays(m)
          IN /\ m % 2 = 0 => outcome = Returned(m)
             /\ m % 2 = 1 => outcome = Returned(m - 1)
             /\ day_int(1 \in n, 2 \in n, 3 \in n, 4 \in n, 5 \in n, 6 \in n, 7 \in n)
                  = outcome.value
    /\ (call.op = "alarm_settings" /\ Exists(call.alarm)) =>
          LET m == alarm_data[call.alarm].days
          IN /\ outcome.kind = "return"
             /\ m = 62 => /\ outcome.days = << "mon", "tue", "wed", "thu", "fri" >>
                          /\ AlarmDays(m) = 1..5
             /\ m = 192 => outcome.days = << "sat", "sun" >> /\ AlarmDays(m) = {6, 7}
             /\ m = 254 => /\ outcome.days = << "mon", "tue", "wed", "thu", "fri",
                                                "sat", "sun" >>
                           /\ AlarmDays(m) = 1..7
             /\ m = 0 => outcome.days = << >> /\ AlarmDays(m) = {}

\* C12 witness: the mask 62 was decoded and encoded again to 62.
C12_Witness ==
    /\ call.op = "day_int" /\ call.alarm = 1
    /\ alarm_data[1].days = 62
    /\ outcome = Returned(62)

\* Both callers are out of set_alarm.
BothDone == threads # NoThreads /\ \A t \in Callers : threads[t].pc = "done"
\* The values the callers supplied for the hour, the minute and the days.
GivenHours == { threads[t].hour : t \in Callers } \ {None}
GivenMinutes == { threads[t].minute : t \in Callers } \ {None}
GivenDays == { threads[t].days : t \in Callers } \ {None}
\* A component of the record holds a supplied value when one was supplied,
\* else the value it had before the calls.
KeptIn(final, given, before) == IF given = {} THEN final = before ELSE final \in given

\* C17: when the two set_alarm calls on one alarm ran one after the other,
\* in either order, the record holds every supplied hour, minute and days
\* value (and the old value where none was supplied); when they overlapped
\* each component is a supplied value or the old one, so that an update
\* can be lost (the witness).
C17_SerialKeepsBoth ==
    BothDone =>
        LET r == alarm_data[1]
        IN /\ ~overlapped =>
                /\ KeptIn(r.time[1], GivenHours, SharedRecord.time[1])
                /\ KeptIn(r.time[2], GivenMinutes, SharedRecord.time[2])
                /\ KeptIn(r.days, GivenDays, SharedRecord.days)
           /\ r.time[1] \in GivenHours \cup {SharedRecord.time[1]}
           /\ r.time[2] \in GivenMinutes \cup {SharedRecord.time[2]}
           /\ KeptIn(r.days, GivenDays, SharedRecord.days)
           /\ r.position = SharedRecord.position /\ r.enabled = SharedRecord.enabled
           /\ \A t \in Callers : threads[t].exc = "AttributeError"

\* C17 witness: set_alarm(hour=0) and set_alarm(minute=0) on the alarm set
\* to 09:30 have both finished and the record is not 00:00: one of the two
\* updates is lost.
C17_LostUpdate ==
    /\ BothDone
    /\ threads[1].hour = 0 /\ threads[1].minute = None /\ threads[1].days = None
    /\ threads[2].hour = None /\ threads[2].minute = 0 /\ threads[2].days = None
    /\ alarm_data[1].time # << 0, 0 >>

\* The order of the endpoints of a full refresh and the endpoint of each
\* cached blob, as the claim states them.
RefreshUrls ==
    << "wutms", "wurlx", "wudsk", "wutmr", "wusts", "wulgt", "wusrd", "device",
       "wuply", "wungt", "wualm", "wualm/aenvs", "wualm/aalms" >>
RefreshAttrs ==
    << "timezone_status", "relax_status", "dusk_status", "timer_runtime",
       "settings_info", "light_data", "sensor_data", "device_info",
       "audio_info", "night_data" >>
\* Blob i holds the answer of its endpoint in this refresh / an answer of an
\* earlier refresh, or nothing.
Fresh(i) == blobs[RefreshAttrs[i]] = Response(RefreshUrls[i], refreshes)
Stale(i) ==
    \/ blobs[RefreshAttrs[i]] = NoBlob
    \/ \E g \in 1..(refreshes - 1) : blobs[RefreshAttrs[i]] = Response(RefreshUrls[i], g)
\* The first k blobs are replaced, the others are not.
Replaced(k) == \A i \in 1..Len(RefreshAttrs) : IF i <= k THEN Fresh(i) ELSE Stale(i)
\* The place of the running GET in the order (0 when none is running).
Place == IF \E k \in 1..Len(RefreshUrls) : RefreshUrls[k] = pc
         THEN CHOOSE k \in 1..Len(RefreshUrls) : RefreshUrls[k] = pc ELSE 0

C20_State ==
    call.op = "update" =>
        /\ req # NoReq => req = Get(pc) /\ Place > 0 /\ nget = Place
        /\ (req # NoReq /\ Place <= Len(RefreshAttrs)) => Replaced(Place - 1)
        /\ (req # NoReq /\ Place > Len(RefreshAttrs)) => Replaced(Len(RefreshAttrs))
        /\ req = NoReq =>
              /\ nget \in 1..Len(RefreshUrls)
              /\ Replaced(Min(nget - 1, Len(RefreshAttrs)))
              /\ outcome.kind = "return" =>
                    nget = Len(RefreshUrls) /\ Replaced(Len(RefreshAttrs))
C20_Step ==
    call'.op = "update" =>
        \* the call begins with the first endpoint and changes nothing yet
        /\ pc = "idle" =>
              /\ pc' = RefreshUrls[1]
              /\ blobs' = blobs /\ alarm_data' = alarm_data /\ snoozetime' = snoozetime
        \* a GET that fails ends the call and changes nothing
        /\ (pc # "idle" /\ outcome'.kind = "raise" /\ lastOutcome' # "response") =>
              /\ pc' = "idle" /\ req' = NoReq
              /\ blobs' = blobs /\ alarm_data' = alarm_data /\ snoozetime' = snoozetime
        \* a GET that is answered is followed by the next endpoint, and only
        \* what that GET fetched is replaced
        /\ (pc # "idle" /\ lastOutcome' = "response" /\ pc' # pc) =>
              /\ Place < Len(RefreshUrls) =>
                    pc' = RefreshUrls[Place + 1] /\ req' = Get(pc')
              /\ Place = Len(RefreshUrls) => pc' = "idle" /\ req' = NoReq
              /\ \A i \in 1..Len(RefreshAttrs) :
                    i # Place => blobs'[RefreshAttrs[i]] = blobs[RefreshAttrs[i]]
              /\ Place # Len(RefreshUrls) => alarm_data' = alarm_data
              /\ pc # "wualm" => snoozetime' = snoozetime

\* C20: a full refresh runs its GETs one after the other in the order
\* wutms, wurlx, wudsk, wutmr, wusts, wulgt, wusrd, device, wuply, wungt,
\* wualm, wualm/aenvs, wualm/aalms; when the k-th GET fails the call ends
\* there, the blobs of the k-1 GETs before it hold this refresh's answers
\* and the later blobs, the snooze time and the registry are what they were
\* before; when the call returns every blob holds the answer of its own
\* endpoint.
C20_RefreshOrder == [](C20_State) /\ [][C20_Step]_vars

\* C20 witness: the second refresh failed at its sixth GET (wulgt): five
\* blobs are the second answers, light_data and the rest are still the
\* first.
C20_Witness ==
    /\ call.op = "update" /\ pc = "idle" /\ outcome.kind = "raise"
    /\ refreshes = 2 /\ nget = 6
    /\ blobs.settings_info = Response("wusts", 2)
    /\ blobs.light_data = Response("wulgt", 1)
    /\ blobs.night_data = Response("wungt", 1)
    /\ Len(alarm_data) = 1

\* The setters, the endpoint and the attribute of each as the claims name
\* them, and the blob field each parameter names.
SetterOps == {"set_light", "set_audio", "set_sunset"}
OwnUrl(op) ==
    CASE op = "set_light" -> "wulgt" [] op = "set_audio" -> "wuply" [] op = "set_sunset" -> "wudsk"
OwnAttr(op) ==
    CASE op = "set_light" -> "light_data" [] op = "set_audio" -> "audio_info"
      [] op = "set_sunset" -> "dusk_status"
ParamField(op) ==
    CASE op = "set_light" ->
           [enable |-> "onoff", light_intensity |-> "ltlvl", color_type |-> "ctype"]
      [] op = "set_audio" ->
           [enable |-> "onoff", sound_device |-> "snddv", sound_volume |-> "sdvol",
            sound_channel |-> "sndch"]
      [] op = "set_sunset" ->
           [enable |-> "onoff", light_intensity |-> "curve", duration |-> "durat",
            color_type |-> "ctype", sound_device |-> "snddv", sound_channel |-> "sndch",
            volume |-> "sndlv"]
\* A falsy argument q of setter op: False, None, 0, the empty string.
Falsy(op, q, x) ==
    IF q = "enable" THEN ~x
    ELSE IF q \in {"sound_device", "sound_channel"} \/ (op = "set_light" /\ q = "color_type")
    THEN x \in {"None", "", "int 0"}
    ELSE x \in {None, 0}
\* The fields named by the truthy arguments of call c.
TruthyFields(c) ==
    { ParamField(c.op)[q] : q \in { q \in DOMAIN c.args : ~Falsy(c.op, q, c.args[q]) } }

\* C13 (as claimed): after the first setter call on a refreshed blob, every
\* field that no truthy argument names still holds the refreshed value.
C13_Claim ==
    (call.op \in SetterOps /\ setter_calls = 1 /\ refreshes > 0) =>
        \A f \in DOMAIN blobs[OwnAttr(call.op)] \ TruthyFields(call) :
            blobs[OwnAttr(call.op)][f] = Response(OwnUrl(call.op), refreshes)[f]

\* What each setter writes: onoff always, snddv of set_audio always, ctype
\* of set_light for a member other than NO_LIGHT, any other field when its
\* argument is truthy.
Written(c) ==
    LET a == c.args
        always == IF c.op = "set_audio" THEN {"enable", "sound_device"} ELSE {"enable"}
        params == { q \in DOMAIN a :
                      \/ q \in always
                      \/ /\ ~Falsy(c.op, q, a[q])
                         /\ ~(c.op = "set_light" /\ q = "color_type" /\ a[q] = "NO_LIGHT") }
    IN [f \in { ParamField(c.op)[q] : q \in params } |->
          LET q == CHOOSE q \in params : ParamField(c.op)[q] = f
          IN IF c.op = "set_light" /\ q = "color_type"
             THEN CASE a[q] = "SUNNY_DAY" -> 0 [] a[q] = "ISLAND_RED" -> 1
                    [] a[q] = "NORDIC_WHITE" -> 2 [] a[q] = "CARRIBEAN_RED" -> 3
             ELSE a[q]]
\* What a setter step on a cached blob does to the blobs.
C13_Step ==
    (call'.op \in SetterOps /\ pc = "idle" /\ vars' # vars
     /\ blobs[OwnAttr(call'.op)] # NoBlob) =>
        LET old == blobs[OwnAttr(call'.op)]
            new == blobs'[OwnAttr(call'.op)]
            w == Written(call')
        IN /\ DOMAIN new = DOMAIN old
           /\ \A f \in DOMAIN old : new[f] = IF f \in DOMAIN w THEN w[f] ELSE old[f]
           /\ \A x \in BlobAttrs \ {OwnAttr(call'.op)} : blobs'[x] = blobs[x]
           /\ alarm_data' = alarm_data /\ snoozetime' = snoozetime

\* C13 (amended): each setter writes enable to onoff whatever its value,
\* set_audio writes sound_device to snddv whatever its value, set_light
\* writes the value of color_type to ctype unless it is None or NO_LIGHT,
\* and every other parameter is written to its field exactly when it is
\* truthy (the defaults 'dus', 1 and 'fmr' of an omitted sound_device or
\* sound_channel are truthy); every other field and every other blob is
\* left as it was.
C13_SetterFrame == [][C13_Step]_vars

\* C13 witness: set_sunset() without arguments on the blob of the second
\* refresh (on, 'fmr', channel '1') has switched it off and set 'dus' and
\* the integer 1.
C13_Witness ==
    /\ call.op = "set_sunset" /\ call.args = SunsetDefaults
    /\ refreshes = 2 /\ setter_calls = 1
    /\ Response("wudsk", 2).onoff /\ ~blobs.dusk_status.onoff
    /\ blobs.dusk_status.snddv = "dus" /\ blobs.dusk_status.sndch = "int 1"
    /\ blobs.dusk_status.curve = Response("wudsk", 2).curve

AlarmWrites == {"toggle_alarm", "set_alarm"}
PutFailures == {"ReadTimeout", "ConnectTimeout", "RequestException", "422"}
RecordHolds(c, r) ==
    IF c.op = "toggle_alarm" THEN r.enabled = c.status
    ELSE /\ c.hour # None => r.time[1] = c.hour
         /\ c.minute # None => r.time[2] = c.minute
         /\ c.days # None => r.days = c.days
C21_State ==
    /\ (call.op \in SetterOps /\ blobs[OwnAttr(call.op)] # NoBlob) =>
          LET blob == blobs[OwnAttr(call.op)]
              w == Written(call)
          IN /\ \A f \in DOMAIN w : blob[f] = w[f]
             /\ req # NoReq => (req.method = "PUT" /\ req.payload = blob)
             /\ outcome.kind = "raise" =>
                   (nput = 1 /\ req = NoReq /\ pc = "idle"
                    /\ lastOutcome \in PutFailures \cup {"notjson"})
    /\ (call.op \in AlarmWrites /\ outcome.exc = "AttributeError") =>
          /\ outcome.kind = "raise" /\ nput = 0 /\ req = NoReq /\ pc = "idle"
          /\ RecordHolds(call, alarm_data[call.alarm])
C21_Step ==
    /\ req # NoReq => (blobs' = blobs /\ alarm_data' = alarm_data)
    /\ (req # NoReq /\ req' = NoReq /\ lastOutcome' \in PutFailures) =>
          /\ pc' = "idle" /\ outcome'.kind = "raise"
          /\ outcome'.exc = IF lastOutcome' = "422" THEN "Exception" ELSE lastOutcome'
    /\ (pc = "idle" /\ call'.op \in AlarmWrites) =>
          /\ blobs' = blobs
          /\ Len(alarm_data') = Len(alarm_data)
          /\ \A i \in 1..Len(alarm_data) : i # call'.alarm => alarm_data'[i] = alarm_data[i]
    /\ (pc = "idle" /\ call'.op \in SetterOps) =>
          /\ alarm_data' = alarm_data
          /\ \A x \in BlobAttrs \ {OwnAttr(call'.op)} : blobs'[x] = blobs[x]

\* C21: the cache is changed before the write and never rolled back.  While
\* the PUT of set_light, set_audio or set_sunset is on its way the cached
\* blob already holds the values the call wrote and is the payload; an
\* attempt that ends in a timeout, a request failure or a 422 ends the call
\* with that error and leaves every blob and every record as it was, so the
\* blob still holds the new values.  toggle_alarm and set_alarm on a record
\* they can change end in AttributeError at self._put, with no PUT made and
\* the record holding the new status, hour, minute and days.  No later
\* call of the five touches what an earlier one left in another blob or
\* record.
C21_NoRollback == [](C21_State) /\ [][C21_Step]_vars

\* C21 witness: after the first refresh set_alarm(hour=0) and toggle_alarm
\* (False) ended in AttributeError and set_light(enable=...) was refused
\* with a 422: the record says 00:30 and disabled, light_data.onoff is not
\* what the device answered.
C21_Witness ==
    /\ call.op = "set_light" /\ lastOutcome = "422" /\ outcome.kind = "raise"
    /\ refreshes = 1 /\ req = NoReq
    /\ blobs.light_data.onoff = call.args.enable
    /\ blobs.light_data.onoff # Response("wulgt", 1).onoff
    /\ Len(alarm_data) = 1
    /\ alarm_data[1].time = << 0, 30 >> /\ ~alarm_data[1].enabled

=============================================================================
